---- MODULE Spec2Model ----
(***************************************************************************)
(* Model of the egles "triangle" example (examples/es2/xorg/triangle).     *)
(*                                                                         *)
(* The program is three threads of control:                                *)
(*   - main():            registers the render loop, installs the signal   *)
(*                        handler, runs the application and waits on       *)
(*                        exitCh;                                          *)
(*   - renderLoop.Run():  initialize(), reshape(), initShaders(), then the *)
(*                        select loop over pause / terminate / ticker.C;   *)
(*   - a controller:      whoever holds the channels returned by Pause()   *)
(*                        and Terminate() (the application package).       *)
(* The GL driver, the EGL library, the X server and the runtime's ticker   *)
(* are the environment: a GL call may raise any error code, a status read  *)
(* may return 0 or 1, the X connection may fail, the ticker may fire.      *)
(***************************************************************************)
EXTENDS Integers, Sequences, FiniteSets

\* ---------------------------------------------------------------- bounds
\* Largest number of ticks the loop consumes in a checked run.
MaxFrames == 2
\* Largest number of pause/terminate requests the controller sends.
MaxRequests == 2
\* GL error codes are 1..MaxErrCode; 0 is GL_NO_ERROR.
MaxErrCode == 1

\* ------------------------------------------------------------- constants
\* Signals the environment may deliver.  "other" is an os.Signal that is
\* not a syscall.Signal (the outer type switch has no case for it).
Signals == {"SIGTERM", "SIGINT", "SIGHUP", "other"}

\* case syscall.SIGTERM, syscall.SIGINT:
ExitSignals == {"SIGTERM", "SIGINT"}

\* The value the loop sends back on a channel after handling a request.
AckValue == 0

\* The two control channels of a renderLoop.
Channels == {"pause", "terminate"}

\* The objects whose compile/link status is read back.
Objects == {"fsh", "vsh", "prog"}

\* One GL call site of the start-up code.
\*   kind "checked": the call is followed by check()
\*   kind "plain":   the call is not followed by check()
\*   kind "status":  Get{Shader,Program}iv reading the status of obj
\*   kind "log":     Get*InfoLog, executed only under `if stat == 0`
\*   kind "use":     gl.UseProgram(program)
GLSite(f, c, k, o) == [fn |-> f, call |-> c, kind |-> k, obj |-> o]

\* reshape(INITIAL_WINDOW_WIDTH, INITIAL_WINDOW_HEIGHT)
reshapeCalls == << GLSite("reshape", "Viewport", "plain", "none") >>

FragmentShaderCalls ==
  << GLSite("FragmentShader", "CreateShader", "checked", "none"),
     GLSite("FragmentShader", "ShaderSource", "checked", "none"),
     GLSite("FragmentShader", "CompileShader", "checked", "none"),
     GLSite("FragmentShader", "GetShaderiv", "status", "fsh"),
     GLSite("FragmentShader", "GetShaderInfoLog", "log", "fsh") >>

VertexShaderCalls ==
  << GLSite("VertexShader", "CreateShader", "plain", "none"),
     GLSite("VertexShader", "ShaderSource", "plain", "none"),
     GLSite("VertexShader", "CompileShader", "plain", "none"),
     GLSite("VertexShader", "GetShaderiv", "status", "vsh"),
     GLSite("VertexShader", "GetShaderInfoLog", "log", "vsh") >>

ProgramCalls ==
  << GLSite("Program", "CreateProgram", "plain", "none"),
     GLSite("Program", "AttachShader", "plain", "none"),
     GLSite("Program", "AttachShader", "plain", "none"),
     GLSite("Program", "LinkProgram", "plain", "none"),
     GLSite("Program", "GetProgramiv", "status", "prog"),
     GLSite("Program", "GetProgramInfoLog", "log", "prog") >>

\* initShaders: Go evaluates the arguments of Program(...) left to right,
\* so FragmentShader runs first, then VertexShader, then Program.
initShadersCalls ==
  FragmentShaderCalls \o VertexShaderCalls \o ProgramCalls \o
  << GLSite("initShaders", "UseProgram", "use", "prog"),
     GLSite("initShaders", "GetAttribLocation", "plain", "none"),
     GLSite("initShaders", "GetAttribLocation", "plain", "none"),
     GLSite("initShaders", "GenBuffers", "plain", "none"),
     GLSite("initShaders", "BindBuffer", "plain", "none"),
     GLSite("initShaders", "BufferData", "plain", "none"),
     GLSite("initShaders", "GenBuffers", "plain", "none"),
     GLSite("initShaders", "BindBuffer", "plain", "none"),
     GLSite("initShaders", "BufferData", "plain", "none"),
     GLSite("initShaders", "EnableVertexAttribArray", "plain", "none"),
     GLSite("initShaders", "EnableVertexAttribArray", "plain", "none"),
     GLSite("initShaders", "ClearColor", "plain", "none") >>

\* The GL calls Run makes between initialize() and the select loop.
SetupCalls == reshapeCalls \o initShadersCalls

\* The EGL calls of cleanup(), in program order.
cleanupCallsNoContext == << "DestroySurface", "Terminate" >>
cleanupCalls == << "DestroySurface", "DestroyContext", "Terminate" >>

\* ------------------------------------------------------------- variables
VARIABLES
  proc,             \* "running" | "fatal" (log.Fatal) | "panic" | "returned"
  mainPc,           \* main(): "register" | "install" | "run" | "wait" | "done"
  handlerInstalled, \* application.InstallSignalHandler(&signal) was called
  delivered,        \* signals handed to HandleSignal so far (history)
  exitRequested,    \* application.Exit() was called
  exitCh,           \* exitCh (capacity 1) holds a value
  pc,               \* Run(): "notStarted" | "initialize" | "setup" |
                    \*        "select" | "swap" | "pauseAck" | "termAck"
  setupIdx,         \* index of the next call site in SetupCalls
  glError,          \* the GL error flag (0 = GL_NO_ERROR)
  glErrorRaised,    \* some GL call has raised an error (history)
  status,           \* compile/link status read back: -1 unread, 0, 1
  programUsed,      \* gl.UseProgram(program) was called
  xConn,            \* "none" | "ok" | "failed"
  windowCreated,    \* newWindow was called
  egl,              \* state of display, surface and context
  eglLog,           \* EGL life-cycle calls made, in order (history)
  nInit,            \* executions of initialize() (history)
  nCleanup,         \* executions of cleanup() (history)
  usedDestroyed,    \* a draw or swap ran on a destroyed surface (history)
  tickerRunning,    \* the ticker exists and has not been stopped
  tickPending,      \* ticker.C (capacity 1) holds a tick
  nTicks,           \* ticks received by the loop (history)
  nDraws,           \* draw() calls (history)
  nSwaps,           \* egl.SwapBuffers calls (history)
  ctl,              \* controller: "idle" | "awaitPause" | "awaitTerm" | "gone"
  reqRecv,          \* requests the loop received, per channel (history)
  acks,             \* acknowledgements delivered, per channel (history)
  lastAck           \* last acknowledgement delivered: <<>> or <<ch, value>>

mainVars  == <<mainPc, handlerInstalled, delivered, exitRequested, exitCh>>
glVars    == <<glError, glErrorRaised, status, programUsed>>
eglVars   == <<xConn, windowCreated, egl, eglLog, nInit, nCleanup>>
tickVars  == <<tickerRunning, tickPending>>
frameVars == <<nTicks, nDraws, nSwaps>>
ctlVars   == <<ctl, reqRecv, acks, lastAck>>
vars == <<proc, mainVars, pc, setupIdx, glVars, eglVars, usedDestroyed,
          tickVars, frameVars, ctlVars>>

EglNone      == [display |-> "none", surface |-> "none", context |-> "none"]
EglLive      == [display |-> "live", surface |-> "live", context |-> "live"]

Init ==
  /\ proc = "running"
  /\ mainPc = "register"
  /\ handlerInstalled = FALSE
  /\ delivered = {}
  /\ exitRequested = FALSE
  /\ exitCh = FALSE
  /\ pc = "notStarted"
  /\ setupIdx = 1
  /\ glError = 0
  /\ glErrorRaised = FALSE
  /\ status = [o \in Objects |-> -1]
  /\ programUsed = FALSE
  /\ xConn = "none"
  /\ windowCreated = FALSE
  /\ egl = EglNone
  /\ eglLog = << >>
  /\ nInit = 0
  /\ nCleanup = 0
  /\ usedDestroyed = FALSE
  /\ tickerRunning = FALSE
  /\ tickPending = FALSE
  /\ nTicks = 0
  /\ nDraws = 0
  /\ nSwaps = 0
  /\ ctl = "idle"
  /\ reqRecv = [c \in Channels |-> 0]
  /\ acks = [c \in Channels |-> 0]
  /\ lastAck = << >>

\* ------------------------------------------------------------ GL helpers
\* The GL error flag after a call that raised e (0 = none): the flag keeps
\* the first error recorded until gl.GetError reads it.
glCall(flag, e) == IF flag = 0 THEN e ELSE flag

\* check(): gl.GetError() returns the flag; panic if it is not 0.
checkPanics(flag) == flag # 0

\* The EGL calls of one cleanup() applied to the display/surface/context.
destroy(e, call) ==
  IF call = "DestroySurface" THEN [e EXCEPT !.surface = "destroyed"]
  ELSE IF call = "DestroyContext" THEN [e EXCEPT !.context = "destroyed"]
  ELSE IF call = "Terminate" THEN [e EXCEPT !.display = "destroyed"]
  ELSE e

RECURSIVE applyCalls(_, _)
applyCalls(e, calls) ==
  IF calls = << >> THEN e
  ELSE applyCalls(destroy(e, Head(calls)), Tail(calls))

cleanup(e) == applyCalls(e, cleanupCalls)

\* ------------------------------------------------------------------ main
\* application.Register("render loop", newRenderLoop(FRAMES_PER_SECOND)):
\* newRenderLoop starts the ticker and makes the two unbuffered channels.
MainRegister ==
  /\ proc = "running" /\ mainPc = "register"
  /\ mainPc' = "install"
  /\ tickerRunning' = TRUE
  /\ UNCHANGED <<proc, handlerInstalled, delivered, exitRequested, exitCh,
                 pc, setupIdx, glVars, eglVars, usedDestroyed, tickPending,
                 frameVars, ctlVars>>

\* application.InstallSignalHandler(&signal)
MainInstall ==
  /\ proc = "running" /\ mainPc = "install"
  /\ mainPc' = "run"
  /\ handlerInstalled' = TRUE
  /\ UNCHANGED <<proc, delivered, exitRequested, exitCh, pc, setupIdx,
                 glVars, eglVars, usedDestroyed, tickVars, frameVars,
                 ctlVars>>

\* exitCh := make(chan bool, 1); application.Run(exitCh): the registered
\* loop's Run starts in its own goroutine.
MainRun ==
  /\ proc = "running" /\ mainPc = "run"
  /\ mainPc' = "wait"
  /\ pc' = "initialize"
  /\ UNCHANGED <<proc, handlerInstalled, delivered, exitRequested, exitCh,
                 setupIdx, glVars, eglVars, usedDestroyed, tickVars,
                 frameVars, ctlVars>>

\* <-exitCh, then main returns and the process ends.
MainReturn ==
  /\ proc = "running" /\ mainPc = "wait"
  /\ exitCh
  /\ mainPc' = "done"
  /\ exitCh' = FALSE
  /\ proc' = "returned"
  /\ UNCHANGED <<handlerInstalled, delivered, exitRequested, pc, setupIdx,
                 glVars, eglVars, usedDestroyed, tickVars, frameVars,
                 ctlVars>>

\* sigterm.HandleSignal(s)
HandleSignalAny(s) ==
  /\ proc = "running" /\ handlerInstalled
  /\ delivered' = delivered \cup {s}
  /\ exitRequested' = (exitRequested \/ s # "other")
  /\ UNCHANGED <<proc, mainPc, handlerInstalled, exitCh, pc, setupIdx,
                 glVars, eglVars, usedDestroyed, tickVars, frameVars,
                 ctlVars>>
HandleSignal(s) ==
  /\ proc = "running" /\ handlerInstalled
  /\ delivered' = delivered \cup {s}
  /\ exitRequested' = (exitRequested \/ s \in ExitSignals)
  /\ UNCHANGED <<proc, mainPc, handlerInstalled, exitCh, pc, setupIdx,
                 glVars, eglVars, usedDestroyed, tickVars, frameVars,
                 ctlVars>>

\* ------------------------------------------------------- renderLoop.Run
\* initialize(): xgbutil.NewConn() fails -> log.Fatal(err) exits the
\* process; otherwise the window is created and EGL is initialised.
initializeNoFatal ==
  /\ proc = "running" /\ pc = "initialize"
  /\ nInit' = nInit + 1
  /\ \E connOk \in BOOLEAN :
       /\ xConn' = IF connOk THEN "ok" ELSE "failed"
       /\ windowCreated' = TRUE
       /\ egl' = EglLive
       /\ eglLog' = Append(eglLog, "Initialize")
       /\ pc' = "setup"
       /\ proc' = proc
  /\ UNCHANGED <<mainVars, setupIdx, glVars, nCleanup, usedDestroyed,
                 tickVars, frameVars, ctlVars>>
initialize ==
  /\ proc = "running" /\ pc = "initialize"
  /\ nInit' = nInit + 1
  /\ \E connOk \in BOOLEAN :
       IF connOk
       THEN /\ xConn' = "ok"
            /\ windowCreated' = TRUE
            /\ egl' = EglLive
            /\ eglLog' = Append(eglLog, "Initialize")
            /\ pc' = "setup"
            /\ proc' = proc
       ELSE /\ xConn' = "failed"
            /\ proc' = "fatal"
            /\ UNCHANGED <<windowCreated, egl, eglLog, pc>>
  /\ UNCHANGED <<mainVars, setupIdx, glVars, nCleanup, usedDestroyed,
                 tickVars, frameVars, ctlVars>>

\* One GL call site of reshape() / initShaders(), with the check() that
\* follows it in the source, if any.
SetupStep ==
  /\ proc = "running" /\ pc = "setup"
  /\ LET site == SetupCalls[setupIdx]
         last == (setupIdx = Len(SetupCalls))
         advance == /\ setupIdx' = IF last THEN setupIdx ELSE setupIdx + 1
                    /\ pc' = IF last THEN "select" ELSE "setup"
     IN
     IF site.kind = "log" /\ status[site.obj] # 0
     THEN \* `if stat == 0` is false: no call
          /\ advance
          /\ UNCHANGED <<proc, glVars>>
     ELSE \E e \in 0..MaxErrCode :
          LET flag == glCall(glError, e) IN
          /\ glErrorRaised' = (glErrorRaised \/ e # 0)
          /\ IF site.kind = "checked"
             THEN \* check(): GetError returns and clears the flag
                  /\ glError' = 0
                  /\ IF checkPanics(flag)
                     THEN /\ proc' = "panic"
                          /\ UNCHANGED <<pc, setupIdx>>
                     ELSE /\ proc' = proc
                          /\ advance
                  /\ UNCHANGED <<status, programUsed>>
             ELSE /\ glError' = flag
                  /\ proc' = proc
                  /\ advance
                  /\ programUsed' = (programUsed \/ site.kind = "use")
                  /\ IF site.kind = "status"
                     THEN \E s \in {0, 1} :
                            \* a program links only from compiled shaders
                            /\ (site.obj = "prog" /\ s = 1)
                                 => (status["fsh"] = 1 /\ status["vsh"] = 1)
                            /\ status' = [status EXCEPT ![site.obj] = s]
                     ELSE UNCHANGED status
  /\ UNCHANGED <<mainVars, eglVars, usedDestroyed, tickVars, frameVars,
                 ctlVars>>

\* The runtime's ticker puts a tick in ticker.C; a tick is dropped when
\* the channel already holds one.
TickerFire ==
  /\ proc = "running"
  /\ tickerRunning /\ ~tickPending
  /\ tickPending' = TRUE
  /\ UNCHANGED <<proc, mainVars, pc, setupIdx, glVars, eglVars,
                 usedDestroyed, tickerRunning, frameVars, ctlVars>>

\* case <-l.ticker.C: draw(currWidth, currHeight)
\* draw makes nine GL calls and never calls check().
TickDrawTwice ==
  /\ proc = "running" /\ pc = "select"
  /\ tickPending /\ nTicks < MaxFrames
  /\ tickPending' = FALSE
  /\ nTicks' = nTicks + 1
  /\ nDraws' = nDraws + 2
  /\ \E e \in 0..MaxErrCode :
       /\ glError' = glCall(glError, e)
       /\ glErrorRaised' = (glErrorRaised \/ e # 0)
  /\ usedDestroyed' = (usedDestroyed \/ egl.surface = "destroyed")
  /\ pc' = "swap"
  /\ UNCHANGED <<proc, mainVars, setupIdx, status, programUsed, eglVars,
                 tickerRunning, nSwaps, ctlVars>>
TickDraw ==
  /\ proc = "running" /\ pc = "select"
  /\ tickPending /\ nTicks < MaxFrames
  /\ tickPending' = FALSE
  /\ nTicks' = nTicks + 1
  /\ nDraws' = nDraws + 1
  /\ \E e \in 0..MaxErrCode :
       /\ glError' = glCall(glError, e)
       /\ glErrorRaised' = (glErrorRaised \/ e # 0)
  /\ usedDestroyed' = (usedDestroyed \/ egl.surface = "destroyed")
  /\ pc' = "swap"
  /\ UNCHANGED <<proc, mainVars, setupIdx, status, programUsed, eglVars,
                 tickerRunning, nSwaps, ctlVars>>

\* egl.SwapBuffers(platform.Display, platform.Surface)
Swap ==
  /\ proc = "running" /\ pc = "swap"
  /\ nSwaps' = nSwaps + 1
  /\ usedDestroyed' = (usedDestroyed \/ egl.surface = "destroyed")
  /\ pc' = "select"
  /\ UNCHANGED <<proc, mainVars, setupIdx, glVars, eglVars, tickVars,
                 nTicks, nDraws, ctlVars>>

\* case <-l.pause: l.ticker.Stop()
\* The controller's send on the unbuffered channel and the loop's receive
\* are one step.  Stop prevents further ticks and leaves ticker.C as it is.
\* A controller either goes on to receive the acknowledgement or not.
\* The controller sends no request once it has fired exitCh (AppExit is
\* its last act).
RecvPause ==
  /\ proc = "running" /\ pc = "select"
  /\ ctl = "idle" /\ reqRecv["pause"] + reqRecv["terminate"] < MaxRequests
  /\ ~exitCh
  /\ reqRecv' = [reqRecv EXCEPT !["pause"] = @ + 1]
  /\ tickerRunning' = FALSE
  /\ pc' = "pauseAck"
  /\ \E waits \in BOOLEAN : ctl' = IF waits THEN "awaitPause" ELSE "gone"
  /\ UNCHANGED <<proc, mainVars, setupIdx, glVars, eglVars, usedDestroyed,
                 tickPending, frameVars, acks, lastAck>>

\* l.pause <- 0, received by the controller.
AckPause ==
  /\ proc = "running" /\ pc = "pauseAck"
  /\ ctl = "awaitPause"
  /\ acks' = [acks EXCEPT !["pause"] = @ + 1]
  /\ lastAck' = <<"pause", AckValue>>
  /\ ctl' = "idle"
  /\ pc' = "select"
  /\ UNCHANGED <<proc, mainVars, setupIdx, glVars, eglVars, usedDestroyed,
                 tickVars, frameVars, reqRecv>>

\* case <-l.terminate: cleanup()
RecvTerminate ==
  /\ proc = "running" /\ pc = "select"
  /\ ctl = "idle" /\ reqRecv["pause"] + reqRecv["terminate"] < MaxRequests
  /\ ~exitCh
  /\ reqRecv' = [reqRecv EXCEPT !["terminate"] = @ + 1]
  /\ egl' = cleanup(egl)
  /\ eglLog' = eglLog \o cleanupCalls
  /\ nCleanup' = nCleanup + 1
  /\ pc' = "termAck"
  /\ \E waits \in BOOLEAN : ctl' = IF waits THEN "awaitTerm" ELSE "gone"
  /\ UNCHANGED <<proc, mainVars, setupIdx, glVars, xConn, windowCreated,
                 nInit, usedDestroyed, tickVars, frameVars, acks, lastAck>>

\* l.terminate <- 0, received by the controller.
AckTerminateSkip ==
  /\ proc = "running" /\ pc = "termAck"
  /\ ctl = "awaitTerm"
  /\ pc' = "select"
  /\ UNCHANGED <<proc, mainVars, setupIdx, glVars, eglVars, usedDestroyed,
                 tickVars, frameVars, ctlVars>>
AckTerminate ==
  /\ proc = "running" /\ pc = "termAck"
  /\ ctl = "awaitTerm"
  /\ acks' = [acks EXCEPT !["terminate"] = @ + 1]
  /\ lastAck' = <<"terminate", AckValue>>
  /\ ctl' = "idle"
  /\ pc' = "select"
  /\ UNCHANGED <<proc, mainVars, setupIdx, glVars, eglVars, usedDestroyed,
                 tickVars, frameVars, reqRecv>>

\* application.Run(exitCh): once Exit was requested and the loop has
\* acknowledged a terminate request, the application fires exitCh.
AppExit ==
  /\ proc = "running" /\ mainPc = "wait"
  /\ exitRequested /\ ~exitCh
  /\ ctl = "idle" /\ acks["terminate"] > 0
  /\ exitCh' = TRUE
  /\ UNCHANGED <<proc, mainPc, handlerInstalled, delivered, exitRequested,
                 pc, setupIdx, glVars, eglVars, usedDestroyed, tickVars,
                 frameVars, ctlVars>>

Next ==
  \/ MainRegister
  \/ MainInstall
  \/ MainRun
  \/ MainReturn
  \/ \E s \in Signals : HandleSignal(s)
  \/ initialize
  \/ SetupStep
  \/ TickerFire
  \/ TickDraw
  \/ Swap
  \/ RecvPause
  \/ AckPause
  \/ RecvTerminate
  \/ AckTerminate
  \/ AppExit

Spec == Init /\ [][Next]_vars

\* A controller that is waiting in its receive takes the acknowledgement
\* as soon as the loop offers it: a rendezvous both sides are blocked in
\* cannot be postponed forever.
FairSpec == Spec /\ WF_vars(AckPause) /\ WF_vars(AckTerminate)

\* ---------------------------------------------------------------- claims
AckStates == {"pauseAck", "termAck"}
Awaiting  == {"awaitPause", "awaitTerm"}
EglReleased ==
  [display |-> "destroyed", surface |-> "destroyed", context |-> "destroyed"]

\* C1: every tick the loop receives triggers exactly one draw and then
\* exactly one SwapBuffers, and nothing is drawn or swapped without a tick:
\* the draws always equal the ticks received, the swaps equal the draws
\* whenever the loop is between handlers, and the draws are exactly one
\* ahead of the swaps between draw() and SwapBuffers.
C1_OneDrawOneSwapPerTick ==
  /\ nDraws = nTicks
  /\ nSwaps = IF pc = "swap" THEN nDraws - 1 ELSE nDraws
  /\ pc = "select" => nSwaps = nTicks

\* A second tick has been drawn and is about to be swapped.
C1_Witness == nTicks = 2 /\ nDraws = 2 /\ nSwaps = 1 /\ pc = "swap"

\* C2: once a terminate request has been received and acknowledged, the
\* ticker is stopped and the loop never draws or swaps again.
C2_NoFrameAfterTerminate ==
  [][acks["terminate"] > 0
       => (~tickerRunning /\ nDraws' = nDraws /\ nSwaps' = nSwaps)]_vars

\* C3: once a pause request has been received, the ticker stopped and the
\* acknowledgement received, the loop never draws or swaps again, not even
\* for a tick that was pending in ticker.C when the ticker was stopped.
C3_NoFrameAfterPause ==
  [][acks["pause"] > 0 => (nDraws' = nDraws /\ nSwaps' = nSwaps)]_vars

\* C4: on a terminate request the loop runs DestroySurface, DestroyContext
\* and egl.Terminate, in that order, before it sends the acknowledgement:
\* while the loop offers the acknowledgement, and whenever a controller has
\* received one, surface, context and display are all released.
C4_ReleasedBeforeAck ==
  (pc = "termAck" \/ acks["terminate"] > 0) =>
     /\ egl = EglReleased
     /\ nCleanup >= 1
     /\ Len(eglLog) >= 4
     /\ SubSeq(eglLog, 1, 4) =
          << "Initialize", "DestroySurface", "DestroyContext", "Terminate" >>

\* A controller has received the terminate acknowledgement.
C4_Witness ==
  acks["terminate"] > 0 /\ lastAck = <<"terminate", 0>> /\ ctl = "idle"

\* C5: initialize runs exactly once, cleanup runs at most once (also under
\* repeated terminate requests), and no draw or swap uses the surface
\* after it was destroyed.
C5_CreateOnceDestroyOnce ==
  /\ nInit <= 1
  /\ pc \notin {"notStarted", "initialize"} => nInit = 1
  /\ nCleanup <= 1
  /\ ~usedDestroyed

\* C6: whenever a GL call has raised an error code, the program has
\* panicked (it does not go on to the next GL call, frame or swap).
C6_GLErrorPanics == glErrorRaised => proc = "panic"

\* C7: if the X connection fails in initialize, the process exits at once:
\* no window, no EGL initialisation, no GL call of the set-up, no shader
\* status, no tick handled, no draw, no swap, and initialize is not retried.
C7_FatalSetupFailure ==
  xConn = "failed" =>
     /\ proc = "fatal"
     /\ nInit = 1
     /\ ~windowCreated
     /\ egl = EglNone /\ eglLog = << >>
     /\ pc = "initialize" /\ setupIdx = 1
     /\ status = [o \in Objects |-> -1] /\ ~programUsed /\ ~glErrorRaised
     /\ nTicks = 0 /\ nDraws = 0 /\ nSwaps = 0

\* The connection failed while a tick was already waiting in ticker.C.
C7_Witness == xConn = "failed" /\ tickPending

\* C8: initShaders never uses a program unless both compile statuses and
\* the link status were read back as success.
C8_FailedStatusDetected ==
  programUsed => \A o \in Objects : status[o] = 1

C9_Inv ==
  /\ exitRequested <=> (delivered \cap {"SIGTERM", "SIGINT"} # {})
  /\ pc # "notStarted" => handlerInstalled
  /\ mainPc \in {"wait", "done"} => handlerInstalled
  /\ exitCh => exitRequested
  /\ mainPc = "done" => exitRequested

C9_Step ==
  /\ (delivered' # delivered
        /\ (delivered' \ delivered) \cap {"SIGTERM", "SIGINT"} = {})
       => UNCHANGED <<proc, mainPc, handlerInstalled, exitRequested, exitCh,
                      pc, setupIdx, glVars, eglVars, usedDestroyed,
                      tickVars, frameVars, ctlVars>>
  /\ (mainPc # "done" /\ mainPc' = "done") => (mainPc = "wait" /\ exitCh)

\* C9: HandleSignal requests exit exactly when the signal is SIGTERM or
\* SIGINT and changes nothing for any other signal; main installs the
\* handler before the application (and so the loop) runs, and returns only
\* by receiving from exitCh.
C9_SignalHandler == []C9_Inv /\ [][C9_Step]_vars

\* main has returned after signals of both kinds were delivered.
C9_Witness ==
  mainPc = "done" /\ {"SIGHUP", "other"} \subseteq delivered

C10_Inv ==
  /\ \A c \in Channels :
       acks[c] = reqRecv[c] -
                   (IF pc = (IF c = "pause" THEN "pauseAck" ELSE "termAck")
                    THEN 1 ELSE 0)
  /\ lastAck # << >> => (lastAck[2] = 0 /\ acks[lastAck[1]] > 0)
  /\ ctl = "awaitPause" => pc = "pauseAck"
  /\ ctl = "awaitTerm" => pc = "termAck"
  /\ pc = "pauseAck" => ctl \in {"awaitPause", "gone"}
  /\ pc = "termAck" => ctl \in {"awaitTerm", "gone"}
  /\ ctl = "gone" => pc \in AckStates

C10_Step ==
  /\ pc \in AckStates =>
       /\ nTicks' = nTicks /\ nDraws' = nDraws /\ nSwaps' = nSwaps
       /\ reqRecv' = reqRecv
       /\ pc' \in {pc, "select"}
       /\ pc' = "select" => acks' # acks
  /\ (pc \in AckStates /\ ctl = "gone") => pc' = pc

\* C10: for every request received on pause (terminate) the loop sends
\* exactly one 0 back on the same channel; between receiving the request
\* and the controller receiving the acknowledgement the loop handles no
\* tick and no request; a controller that sends and then receives always
\* gets the loop back to its select; if nobody receives the
\* acknowledgement the loop stays blocked.
C10_Handshake ==
  /\ []C10_Inv
  /\ [][C10_Step]_vars
  /\ (pc \in AckStates /\ ctl \in Awaiting) ~> (pc = "select")

\* A pause handshake completed, then a terminate request whose
\* acknowledgement nobody receives.
C10_Witness ==
  acks["pause"] = 1 /\ pc = "termAck" /\ ctl = "gone"
====
